---- MODULE Spec2Model ----
(***************************************************************************)
(* agx2usd: model of src/main.cpp.  main() parses the command line, opens  *)
(* the AGX reader and calls convertToUSDMesh(), which reads the header,    *)
(* creates the USD stage, iterates the constant parameters, iterates the   *)
(* time steps and their parameters, and saves the stage.                   *)
(*                                                                         *)
(* The AGX reader and the USD stage are collaborators: every status the    *)
(* reader returns, and every parameter view and step index it hands out,   *)
(* is an input of the step that asks for it.                               *)
(***************************************************************************)
EXTENDS Integers, Sequences, FiniteSets, TLC

\* ---------------------------------------------------------------- bounds
\* Largest elementCount of an array parameter the reader hands out.
MaxCount == 3
\* Largest step index the reader reports for a time step.
MaxStepIndex == 1
\* Most parameters (constant or per-step) the reader delivers in one run.
MaxReads == 1
\* Most time steps the reader begins in one run.
MaxSteps == 2
\* Largest argc the process is started with.
MaxArgc == 3

\* ------------------------------------------------------- program constants
\* main(): exit codes.
ExitUsage == 1
ExitOpenFailed == 2
ExitConvertFailed == 3
ExitSuccess == 0
\* main(): argc below which the usage message is printed.
MinArgc == 3
\* The time of an attribute Set() given no time code (UsdTimeCode::Default()).
DefaultTime == -1
\* exitCode before main() has returned.
NoExit == -1
\* stepIndex is a uint32_t, initialised to 0.
InitialStepIndex == 0
\* Every face written by the converter is a triangle.
TriangleSize == 3
\* sizeof(uint32_t)
WordBytes == 4

\* ANARI element type tags used by the code.
ElementTypes ==
    {"FLOAT32", "FLOAT32_VEC2", "FLOAT32_VEC3", "FLOAT32_VEC4",
     "UINT32", "UINT32_VEC3", "UNKNOWN"}

\* 4-byte components per element of each type (0: no payload).
Components(t) ==
    CASE t = "FLOAT32"      -> 1
      [] t = "FLOAT32_VEC2" -> 2
      [] t = "FLOAT32_VEC3" -> 3
      [] t = "FLOAT32_VEC4" -> 4
      [] t = "UINT32"       -> 1
      [] t = "UINT32_VEC3"  -> 3
      [] OTHER              -> 0

\* The names compared by the two parameter loops.
PositionNames == {"vertex.position", "position", "vertex.positions", "positions"}
NormalNames == {"vertex.normal", "normal", "vertex.normals", "normals"}
Attribute0Names == {"vertex.attribute0", "attribute0"}
UVNames == {"uv", "vertex.uv", "texcoord"}
IndexNames == {"primitive.index", "index", "primitive.indices", "indices"}
TimeNames == {"time"}
\* A name none of the comparisons matches.
OtherNames == {"color"}

ParamNames ==
    PositionNames \cup NormalNames \cup Attribute0Names \cup UVNames
      \cup IndexNames \cup TimeNames \cup OtherNames

\* A 4-byte word of a payload is its top bit and its low 31 bits; the i-th
\* word handed out has the top bit set when i is even.
Word(i) == [hi |-> (i + 1) % 2, lo |-> i]

\* AGXParamView as the reader fills it: an array carries elementCount
\* elements of elementType, dataBytes = elementCount * sizeof(elementType).
ArrayView(n, t, c) ==
    [name |-> n, isArray |-> TRUE, elementType |-> t, elementCount |-> c,
     dataBytes |-> c * Components(t) * WordBytes,
     data |-> [i \in 1..(c * Components(t)) |-> Word(i)]]

ScalarView(n, t) ==
    [name |-> n, isArray |-> FALSE, elementType |-> t, elementCount |-> 0,
     dataBytes |-> 0, data |-> << >>]

ParamViews ==
    {ArrayView(n, t, c) : n \in ParamNames, t \in ElementTypes, c \in 0..MaxCount}
      \cup {ScalarView(n, t) : n \in ParamNames, t \in ElementTypes}

\* AGXParamView pv{}: no parameter read yet.
EmptyView == ScalarView("", "UNKNOWN")

\* static_cast<int>(uint32_t): a word with the top bit set is negative.
ToInt(w) == IF w.hi = 1 THEN (w.lo - 2147483647) - 1 ELSE w.lo

\* GfVecNf(data[i*k + 0], ..., data[i*k + k-1]) for i in 0..n-1
Tuples(data, n, k) == [i \in 1..n |-> [j \in 1..k |-> data[(i - 1) * k + j]]]

\* One attribute Set() on the mesh.
WriteOf(a, t, v) == [attr |-> a, time |-> t, value |-> v]

MeshAttrs ==
    {"points", "normals", "primvars:st", "primvars:attribute0",
     "faceVertexIndices", "faceVertexCounts"}

VARIABLES
    pc,          \* position in main() / convertToUSDMesh()
    argc,        \* main's argc
    opened,      \* "no" | "ok" | "failed": outcome of agxNewReader
    result,      \* "none" | "ok" | "failed": what convertToUSDMesh returned
    exitCode,    \* main's return value, NoExit before it returns
    stepIndex,   \* uint32_t stepIndex
    mesh,        \* per attribute, the set of <<time, value>> it holds
    interp,      \* normals interpolation of the mesh
    primvarType, \* declared value type of primvars st and attribute0
    nSaves,      \* calls of stage->GetRootLayer()->Save()
    \* history of the run
    calls,       \* read operations asked of the reader so far
    reads,       \* parameters the reader delivered so far
    negAt,       \* the read operation that returned a negative status
    constEnds,   \* times next-constant returned end-of-set
    stepsBegun,  \* time steps begin-next-time-step has begun so far
    stepParams,  \* parameters delivered in the current time step so far
    lastOp,      \* the handler that ran last
    lastParam,   \* the parameter view it was handed (EmptyView: none)
    writes,      \* the Set() calls issued by the handler that ran last
    nWrites      \* Set() calls issued so far

vars ==
    <<pc, argc, opened, result, exitCode, stepIndex, mesh, interp,
      primvarType, nSaves, calls, reads, negAt, constEnds, stepsBegun, stepParams,
      lastOp, lastParam, writes, nWrites>>

sinkVars == <<mesh, interp, primvarType>>

Init ==
    /\ pc = "main"
    /\ argc \in 1..MaxArgc
    /\ opened = "no"
    /\ result = "none"
    /\ exitCode = NoExit
    /\ stepIndex = InitialStepIndex
    /\ mesh = [a \in MeshAttrs |-> {}]
    /\ interp = "unset"
    /\ primvarType = [p \in {"st", "attribute0"} |-> "none"]
    /\ nSaves = 0
    /\ calls = 0
    /\ reads = 0
    /\ negAt = "none"
    /\ constEnds = 0
    /\ stepsBegun = 0
    /\ stepParams = 0
    /\ lastOp = "none"
    /\ lastParam = EmptyView
    /\ writes = << >>
    /\ nWrites = 0

\* ------------------------------------------------------------ the sink
\* attr.Set(value, time): a Set at a time replaces what the attribute held
\* at that time and leaves every other time alone.
SetAt(m, w) ==
    [m EXCEPT ![w.attr] = {s \in @ : s[1] # w.time} \cup {<<w.time, w.value>>}]

RECURSIVE ApplyWrites(_, _)
ApplyWrites(m, ws) ==
    IF ws = << >> THEN m ELSE ApplyWrites(SetAt(m, Head(ws)), Tail(ws))

\* double timeCode = static_cast<double>(stepIndex)
TimeCodeOffByOne(idx) == idx + 1

TimeCode(idx) == idx

\* ------------------------------------------- constant parameter handling
\* Lines 136-171: what one constant parameter writes to the mesh.
ConstantWrites(p) ==
    IF /\ p.isArray
       /\ p.name \in IndexNames
       /\ p.elementType \in {"UINT32_VEC3", "UINT32"}
    THEN LET numIndices == p.dataBytes \div WordBytes
             indices == [i \in 1..numIndices |-> ToInt(p.data[i])]
             numFaces == numIndices \div TriangleSize
         IN  <<WriteOf("faceVertexIndices", DefaultTime, indices)>>
               \o (IF \/ p.elementType = "UINT32_VEC3"
                      \/ numIndices % TriangleSize = 0
                   THEN <<WriteOf("faceVertexCounts", DefaultTime,
                                  [i \in 1..numFaces |-> TriangleSize])>>
                   ELSE << >>)
    ELSE << >>

\* ------------------------------------------ time-step parameter handling
\* The primvar value type CreatePrimvar declares for attribute0.
Attribute0Type(t) ==
    CASE t = "FLOAT32"      -> "FloatArray"
      [] t = "FLOAT32_VEC2" -> "Float2Array"
      [] t = "FLOAT32_VEC3" -> "Float3Array"
      [] t = "FLOAT32_VEC4" -> "Float4Array"
      [] OTHER              -> "none"

\* Lines 197-360: what one time-step parameter writes to the mesh at tc.
TimeStepWrites(p, tc) ==
    IF p.name \in PositionNames THEN
        IF p.isArray /\ p.elementType = "FLOAT32_VEC3"
        THEN <<WriteOf("points", tc, Tuples(p.data, p.elementCount, 3))>>
        ELSE << >>
    ELSE IF p.name \in NormalNames THEN
        IF p.isArray /\ p.elementType = "FLOAT32_VEC3"
        THEN <<WriteOf("normals", tc, Tuples(p.data, p.elementCount, 3))>>
        ELSE << >>
    ELSE IF p.name \in Attribute0Names THEN
        IF p.isArray /\ Attribute0Type(p.elementType) # "none"
        THEN <<WriteOf("primvars:attribute0", tc,
                       Tuples(p.data, p.elementCount, Components(p.elementType)))>>
        ELSE << >>
    ELSE IF p.name \in UVNames THEN
        IF p.isArray /\ p.elementType = "FLOAT32_VEC2"
        THEN <<WriteOf("primvars:st", tc, Tuples(p.data, p.elementCount, 2))>>
        ELSE << >>
    ELSE IF p.name \in IndexNames THEN
        IF p.isArray /\ p.elementType = "UINT32_VEC3"
        THEN LET numIndices == p.elementCount * TriangleSize
                 numFaces == p.elementCount
             IN  <<WriteOf("faceVertexIndices", tc,
                           [i \in 1..numIndices |-> ToInt(p.data[i])]),
                   WriteOf("faceVertexCounts", tc,
                           [i \in 1..numFaces |-> TriangleSize])>>
        ELSE << >>
    ELSE << >>

\* mesh.SetNormalsInterpolation(UsdGeomTokens->vertex), with the normals.
InterpAfter(p, old) ==
    IF p.name \in NormalNames /\ p.isArray /\ p.elementType = "FLOAT32_VEC3"
    THEN "vertex" ELSE old

\* primvarsAPI.CreatePrimvar(name, type, vertex), with the primvar's value.
PrimvarTypeAfter(p, old) ==
    IF p.name \in Attribute0Names /\ p.isArray
         /\ Attribute0Type(p.elementType) # "none"
    THEN [old EXCEPT !["attribute0"] = Attribute0Type(p.elementType)]
    ELSE IF p.name \in UVNames /\ p.isArray /\ p.elementType = "FLOAT32_VEC2"
    THEN [old EXCEPT !["st"] = "Float2Array"]
    ELSE old

\* ------------------------------------------------------------- main()
\* if (argc < 3) { usage; return 1; }
Usage ==
    /\ pc = "main"
    /\ argc < MinArgc
    /\ exitCode' = ExitUsage
    /\ pc' = "exit"
    /\ lastOp' = "usage"
    /\ writes' = << >>
    /\ lastParam' = EmptyView
    /\ UNCHANGED <<stepParams, argc, opened, result, stepIndex, sinkVars, nSaves,
                   calls, reads, negAt, constEnds, stepsBegun, nWrites>>

\* agxNewReader(inputPath) returned a reader: convertToUSDMesh is entered.
OpenOk ==
    /\ pc = "main"
    /\ argc >= MinArgc
    /\ opened' = "ok"
    /\ pc' = "header"
    /\ lastOp' = "open"
    /\ writes' = << >>
    /\ lastParam' = EmptyView
    /\ UNCHANGED <<stepParams, argc, result, exitCode, stepIndex, sinkVars, nSaves,
                   calls, reads, negAt, constEnds, stepsBegun, nWrites>>

\* agxNewReader(inputPath) returned null: return 2.
OpenFail ==
    /\ pc = "main"
    /\ argc >= MinArgc
    /\ opened' = "failed"
    /\ exitCode' = ExitOpenFailed
    /\ pc' = "exit"
    /\ lastOp' = "open"
    /\ writes' = << >>
    /\ lastParam' = EmptyView
    /\ UNCHANGED <<stepParams, argc, result, stepIndex, sinkVars, nSaves,
                   calls, reads, negAt, constEnds, stepsBegun, nWrites>>

\* return success ? 0 : 3
ExitCodeAlwaysZero(res) == ExitSuccess

ExitCode(res) == IF res = "ok" THEN ExitSuccess ELSE ExitConvertFailed

\* agxReleaseReader(reader); return success ? 0 : 3;
Release ==
    /\ pc = "release"
    /\ exitCode' = ExitCode(result)
    /\ pc' = "exit"
    /\ lastOp' = "release"
    /\ writes' = << >>
    /\ lastParam' = EmptyView
    /\ UNCHANGED <<stepParams, argc, opened, result, stepIndex, sinkVars, nSaves,
                   calls, reads, negAt, constEnds, stepsBegun, nWrites>>

\* ---------------------------------------------------- convertToUSDMesh()
\* Statuses agxReaderGetHeader may return: 0 is success.
HeaderStatuses == {-1, 0, 1}

\* agxReaderGetHeader(reader, &hdr) != 0: return false.
GetHeaderFail ==
    /\ pc = "header"
    /\ \E rc \in HeaderStatuses :
          /\ rc # 0
          /\ negAt' = IF rc < 0 THEN "header" ELSE negAt
    /\ calls' = calls + 1
    /\ result' = "failed"
    /\ pc' = "release"
    /\ lastOp' = "header"
    /\ writes' = << >>
    /\ lastParam' = EmptyView
    /\ UNCHANGED <<stepParams, argc, opened, exitCode, stepIndex, sinkVars, nSaves,
                   reads, constEnds, stepsBegun, nWrites>>

\* agxReaderGetHeader(reader, &hdr) == 0
GetHeaderOk ==
    /\ pc = "header"
    /\ calls' = calls + 1
    /\ pc' = "stage"
    /\ lastOp' = "header"
    /\ writes' = << >>
    /\ lastParam' = EmptyView
    /\ UNCHANGED <<stepParams, argc, opened, result, exitCode, stepIndex, sinkVars,
                   nSaves, reads, negAt, constEnds, stepsBegun, nWrites>>

\* UsdStage::CreateNew(outputPath) returned null: return false.
CreateStageFail ==
    /\ pc = "stage"
    /\ result' = "failed"
    /\ pc' = "release"
    /\ lastOp' = "stage"
    /\ writes' = << >>
    /\ lastParam' = EmptyView
    /\ UNCHANGED <<stepParams, argc, opened, exitCode, stepIndex, sinkVars, nSaves,
                   calls, reads, negAt, constEnds, stepsBegun, nWrites>>

\* The stage is created, its metadata set, /Geometry and /Geometry/mesh
\* defined; agxReaderResetConstants(reader).
CreateStageOk ==
    /\ pc = "stage"
    /\ pc' = "constants"
    /\ lastOp' = "stage"
    /\ writes' = << >>
    /\ lastParam' = EmptyView
    /\ UNCHANGED <<stepParams, argc, opened, result, exitCode, stepIndex, sinkVars,
                   nSaves, calls, reads, negAt, constEnds, stepsBegun, nWrites>>

\* agxReaderNextConstant returned rc < 0, taken for the end of the set.
NextConstantErrorIgnored ==
    /\ pc = "constants"
    /\ calls' = calls + 1
    /\ negAt' = "constant"
    /\ pc' = "steps"
    /\ lastOp' = "constantError"
    /\ writes' = << >>
    /\ lastParam' = EmptyView
    /\ UNCHANGED <<stepParams, argc, opened, result, exitCode, stepIndex, sinkVars,
                   nSaves, reads, constEnds, stepsBegun, nWrites>>

\* agxReaderNextConstant returned rc < 0: return false.
NextConstantError ==
    /\ pc = "constants"
    /\ calls' = calls + 1
    /\ negAt' = "constant"
    /\ result' = "failed"
    /\ pc' = "release"
    /\ lastOp' = "constantError"
    /\ writes' = << >>
    /\ lastParam' = EmptyView
    /\ UNCHANGED <<stepParams, argc, opened, exitCode, stepIndex, sinkVars, nSaves,
                   reads, constEnds, stepsBegun, nWrites>>

\* agxReaderNextConstant returned 0: break; agxReaderResetTimeSteps(reader).
NextConstantEnd ==
    /\ pc = "constants"
    /\ calls' = calls + 1
    /\ constEnds' = constEnds + 1
    /\ pc' = "steps"
    /\ lastOp' = "constantEnd"
    /\ writes' = << >>
    /\ lastParam' = EmptyView
    /\ UNCHANGED <<stepParams, argc, opened, result, exitCode, stepIndex, sinkVars,
                   nSaves, reads, negAt, stepsBegun, nWrites>>

\* agxReaderNextConstant returned 1 and filled pv: lines 133-171.
NextConstant ==
    /\ pc = "constants"
    /\ reads < MaxReads
    /\ \E p \in ParamViews :
          /\ lastParam' = p
          /\ writes' = ConstantWrites(p)
          /\ mesh' = ApplyWrites(mesh, ConstantWrites(p))
          /\ nWrites' = nWrites + Len(ConstantWrites(p))
    /\ calls' = calls + 1
    /\ reads' = reads + 1
    /\ lastOp' = "constant"
    /\ UNCHANGED <<stepParams, pc, argc, opened, result, exitCode, stepIndex, interp,
                   primvarType, nSaves, negAt, constEnds, stepsBegun>>

\* Statuses agxReaderBeginNextTimeStep may return other than 1.
EndStatuses == {-1, 0}

\* agxReaderBeginNextTimeStep(...) == 1: the loop body is entered with the
\* step index the reader reported.
BeginNextTimeStep ==
    /\ pc = "steps"
    /\ stepsBegun < MaxSteps
    /\ \E idx \in 0..MaxStepIndex :
          stepIndex' = idx
    /\ stepsBegun' = stepsBegun + 1
    /\ stepParams' = 0
    /\ calls' = calls + 1
    /\ pc' = "params"
    /\ lastOp' = "beginStep"
    /\ writes' = << >>
    /\ lastParam' = EmptyView
    /\ UNCHANGED <<argc, opened, result, exitCode, sinkVars, nSaves,
                   reads, negAt, constEnds, nWrites>>

\* agxReaderBeginNextTimeStep(...) != 1 (end of the steps, or an error):
\* the loop is left for the save.
BeginNextTimeStepEnd ==
    /\ pc = "steps"
    /\ \E rc \in EndStatuses :
          negAt' = IF rc < 0 THEN "beginStep" ELSE negAt
    /\ calls' = calls + 1
    /\ pc' = "save"
    /\ lastOp' = "stepsEnd"
    /\ writes' = << >>
    /\ lastParam' = EmptyView
    /\ UNCHANGED <<stepParams, argc, opened, result, exitCode, stepIndex, sinkVars,
                   nSaves, reads, constEnds, stepsBegun, nWrites>>

\* agxReaderNextTimeStepParam returned rc < 0, taken for the end of the step.
NextTimeStepParamErrorIgnored ==
    /\ pc = "params"
    /\ calls' = calls + 1
    /\ negAt' = "param"
    /\ pc' = "steps"
    /\ lastOp' = "paramError"
    /\ writes' = << >>
    /\ lastParam' = EmptyView
    /\ UNCHANGED <<stepParams, argc, opened, result, exitCode, stepIndex, sinkVars,
                   nSaves, reads, constEnds, stepsBegun, nWrites>>

\* agxReaderNextTimeStepParam returned rc < 0: return false.
NextTimeStepParamError ==
    /\ pc = "params"
    /\ calls' = calls + 1
    /\ negAt' = "param"
    /\ result' = "failed"
    /\ pc' = "release"
    /\ lastOp' = "paramError"
    /\ writes' = << >>
    /\ lastParam' = EmptyView
    /\ UNCHANGED <<stepParams, argc, opened, exitCode, stepIndex, sinkVars, nSaves,
                   reads, constEnds, stepsBegun, nWrites>>

\* agxReaderNextTimeStepParam returned 0, and the stage is saved there.
NextTimeStepParamEndSaving ==
    /\ pc = "params"
    /\ calls' = calls + 1
    /\ nSaves' = nSaves + 1
    /\ pc' = "steps"
    /\ lastOp' = "paramEnd"
    /\ writes' = << >>
    /\ lastParam' = EmptyView
    /\ UNCHANGED <<stepParams, argc, opened, result, exitCode, stepIndex, sinkVars,
                   reads, negAt, constEnds, stepsBegun, nWrites>>

\* agxReaderNextTimeStepParam returned 0: break, on to the next step.
NextTimeStepParamEnd ==
    /\ pc = "params"
    /\ calls' = calls + 1
    /\ pc' = "steps"
    /\ lastOp' = "paramEnd"
    /\ writes' = << >>
    /\ lastParam' = EmptyView
    /\ UNCHANGED <<stepParams, argc, opened, result, exitCode, stepIndex, sinkVars,
                   nSaves, reads, negAt, constEnds, stepsBegun, nWrites>>

\* agxReaderNextTimeStepParam returned 1 and filled pv: lines 195-360.
NextTimeStepParam ==
    /\ pc = "params"
    /\ reads < MaxReads
    /\ \E p \in ParamViews :
          LET ws == TimeStepWrites(p, TimeCode(stepIndex))
          IN  /\ lastParam' = p
              /\ writes' = ws
              /\ mesh' = ApplyWrites(mesh, ws)
              /\ nWrites' = nWrites + Len(ws)
              /\ interp' = InterpAfter(p, interp)
              /\ primvarType' = PrimvarTypeAfter(p, primvarType)
    /\ calls' = calls + 1
    /\ reads' = reads + 1
    /\ stepParams' = stepParams + 1
    /\ lastOp' = "param"
    /\ UNCHANGED <<pc, argc, opened, result, exitCode, stepIndex, nSaves,
                   negAt, constEnds, stepsBegun>>

\* stage->GetRootLayer()->Save(); return true.
Save ==
    /\ pc = "save"
    /\ nSaves' = nSaves + 1
    /\ result' = "ok"
    /\ pc' = "release"
    /\ lastOp' = "save"
    /\ writes' = << >>
    /\ lastParam' = EmptyView
    /\ UNCHANGED <<stepParams, argc, opened, exitCode, stepIndex, sinkVars, calls,
                   reads, negAt, constEnds, stepsBegun, nWrites>>

Next ==
    \/ Usage
    \/ OpenOk
    \/ OpenFail
    \/ GetHeaderFail
    \/ GetHeaderOk
    \/ CreateStageFail
    \/ CreateStageOk
    \/ NextConstantError
    \/ NextConstantEnd
    \/ NextConstant
    \/ BeginNextTimeStep
    \/ BeginNextTimeStepEnd
    \/ NextTimeStepParamError
    \/ NextTimeStepParamEnd
    \/ NextTimeStepParam
    \/ Save
    \/ Release

Spec == Init /\ [][Next]_vars

\* ------------------------------------------------------------- claims
TopologyAttrs == {"faceVertexIndices", "faceVertexCounts"}

\* The attributes the handler that ran last wrote to.
WrittenAttrs == {writes[i].attr : i \in DOMAIN writes}

\* The times at which attribute a of the mesh m holds a time sample.
SampleTimes(m, a) == {s[1] : s \in {x \in m[a] : x[1] # DefaultTime}}

\* What attribute a of the mesh m holds with no time code.
DefaultValues(m, a) == {s \in m[a] : s[1] = DefaultTime}

\* A parameter view was handed to one of the two loops by the last step.
Handled == lastOp \in {"constant", "param"}

\* C1: whenever a read operation of the run (read header, get-next-constant,
\* begin-next-time-step, get-next-time-step-parameter) has returned a
\* negative status, the run does not end in Done: convertToUSDMesh reports
\* failure and the process does not exit with the success code.
C1_EveryReadFailureIsFatal ==
    negAt # "none" =>
        /\ result # "ok"
        /\ exitCode # ExitSuccess
        /\ (pc = "exit" => result = "failed")

\* C2: once get-next-time-step-parameter has returned a negative status, no
\* step asks the reader for anything more (no parameter is read, no time
\* step is begun), none writes to the mesh, none saves the stage, and the
\* conversion has reported failure.
C2_AbortsAtParamError ==
    /\ [](negAt = "param" => result = "failed")
    /\ [][negAt = "param" =>
            /\ calls' = calls
            /\ stepsBegun' = stepsBegun
            /\ nWrites' = nWrites
            /\ nSaves' = nSaves
            /\ UNCHANGED sinkVars
            /\ result' = "failed"]_vars

\* C2 witness: a time step delivered a parameter that was written to the
\* mesh, the next read of that step failed, and the process has exited.
C2_Witness ==
    /\ negAt = "param"
    /\ stepParams > 0
    /\ nWrites > 0
    /\ pc = "exit"
    /\ exitCode = ExitConvertFailed

\* C3: an array index parameter of plain uint32 type whose count is not
\* divisible by 3 causes no topology write, neither of the face-vertex
\* indices nor of the face-vertex counts, in the constant set and in a
\* time step alike.
C3_NonTriangleIndicesRejected ==
    ( /\ Handled
      /\ lastParam.isArray
      /\ lastParam.name \in IndexNames
      /\ lastParam.elementType = "UINT32"
      /\ lastParam.elementCount % 3 # 0 )
    => WrittenAttrs \cap TopologyAttrs = {}

\* The number of faces F of an index parameter: its elements when they are
\* uint32-vec3, a third of its values when they are plain uint32.
FacesOf(p) ==
    IF p.elementType = "UINT32_VEC3" THEN p.elementCount
    ELSE p.elementCount \div 3

\* C4: an array index parameter of uint32-vec3 type with F elements, and
\* one of plain uint32 type with 3F values (F >= 1), each cause exactly the
\* write of the 3F indices in source order and of F face counts all equal
\* to 3: at the step's time code in a time step, with no time code in the
\* constant set.
C4_BothIndexShapesDecodeAlike ==
    ( /\ Handled
      /\ lastParam.isArray
      /\ lastParam.name \in IndexNames
      /\ lastParam.elementCount > 0
      /\ \/ lastParam.elementType = "UINT32_VEC3"
         \/ /\ lastParam.elementType = "UINT32"
            /\ lastParam.elementCount % 3 = 0 )
    => LET F == FacesOf(lastParam)
           t == IF lastOp = "constant" THEN DefaultTime ELSE stepIndex
       IN  writes =
             << WriteOf("faceVertexIndices", t,
                        [i \in 1..(3 * F) |-> ToInt(lastParam.data[i])]),
                WriteOf("faceVertexCounts", t, [i \in 1..F |-> 3]) >>

\* C5 as stated: every time-coded write carries the step index of its time
\* step, and the step indices of the successive time steps are 0, 1, 2, ...
C5_TimeCodesConsecutiveFromZero ==
    /\ \A i \in DOMAIN writes :
          writes[i].time # DefaultTime => writes[i].time = stepIndex
    /\ (lastOp = "beginStep" => stepIndex = stepsBegun - 1)

\* C5 amended: every write a time-step parameter causes carries, as its
\* time code, the step index the reader reported for the current step, and
\* the mesh then holds a time sample at exactly that code.
C5_TimeCodeIsReportedStepIndex ==
    lastOp = "param" =>
        \A i \in DOMAIN writes :
            /\ writes[i].time = stepIndex
            /\ <<stepIndex, writes[i].value>> \in mesh[writes[i].attr]

\* C5 witness: the second time step of a run, reported with index 1, wrote
\* to the mesh.
C5_Witness ==
    /\ lastOp = "param"
    /\ writes # << >>
    /\ stepsBegun = 2
    /\ stepIndex = 1

\* A parameter that specifies IndexTopology: a non-empty array under an
\* index name, of uint32-vec3 type or of plain uint32 type with a count
\* divisible by 3.
IsIndexTopology(p) ==
    /\ p.isArray
    /\ p.name \in IndexNames
    /\ p.elementCount > 0
    /\ \/ p.elementType = "UINT32_VEC3"
       \/ p.elementType = "UINT32" /\ p.elementCount % 3 = 0

\* A parameter that is no index parameter at all.
NotIndexParam(p) == ~(p.isArray /\ p.name \in IndexNames)

\* C6: a constant parameter writes with no time code only; a time-step
\* parameter leaves what the topology attributes hold with no time code
\* unchanged; one that is no index parameter leaves their time samples
\* unchanged too, and one that specifies IndexTopology gives both a time
\* sample at the step's time code.
C6_ConstantTopologyKept ==
    [][ /\ lastOp' = "constant" =>
              \A i \in DOMAIN writes' : writes'[i].time = DefaultTime
        /\ lastOp' = "param" =>
              \A a \in TopologyAttrs :
                  /\ DefaultValues(mesh', a) = DefaultValues(mesh, a)
                  /\ (IsIndexTopology(lastParam') =>
                          stepIndex' \in SampleTimes(mesh', a))
                  /\ (NotIndexParam(lastParam') =>
                          SampleTimes(mesh', a) = SampleTimes(mesh, a)) ]_vars

\* The attributes of the documented role of an alias name.
RoleAttrs(n) ==
    IF n \in PositionNames THEN {"points"}
    ELSE IF n \in NormalNames THEN {"normals"}
    ELSE IF n \in UVNames THEN {"primvars:st"}
    ELSE IF n \in Attribute0Names THEN {"primvars:attribute0"}
    ELSE IF n \in IndexNames THEN TopologyAttrs
    ELSE {}

\* The element types the alias table requires of an array under name n.
RequiredTypes(n) ==
    IF n \in PositionNames \cup NormalNames THEN {"FLOAT32_VEC3"}
    ELSE IF n \in UVNames THEN {"FLOAT32_VEC2"}
    ELSE IF n \in Attribute0Names
         THEN {"FLOAT32", "FLOAT32_VEC2", "FLOAT32_VEC3", "FLOAT32_VEC4"}
    ELSE IF n \in IndexNames THEN {"UINT32", "UINT32_VEC3"}
    ELSE {}

AliasNames ==
    PositionNames \cup NormalNames \cup UVNames \cup Attribute0Names
      \cup IndexNames \cup TimeNames

\* C7: a time-step parameter under an alias name is written to the
\* attributes of its documented role, at the step's time code, when it is
\* an array of a required element type, and causes no write at all when it
\* is not.  (A plain uint32 index array that is empty, or whose count is
\* not divisible by 3, is left aside.)
C7_AliasWrittenByRole ==
    (lastOp = "param" /\ lastParam.name \in AliasNames) =>
        IF lastParam.isArray
             /\ lastParam.elementType \in RequiredTypes(lastParam.name)
        THEN \/ /\ lastParam.name \in IndexNames
                /\ lastParam.elementType = "UINT32"
                /\ \/ lastParam.elementCount % 3 # 0
                   \/ lastParam.elementCount = 0
             \/ /\ WrittenAttrs = RoleAttrs(lastParam.name)
                /\ \A i \in DOMAIN writes : writes[i].time = stepIndex
        ELSE writes = << >>

\* C8: at exit the exit code tells the four outcomes apart: 1 exactly when
\* fewer than two paths were given (the input is then never opened), 2
\* exactly when the input could not be opened (the conversion is then never
\* run), 3 exactly when the conversion reported failure, which it does after
\* a failed header read, a failed stage creation, a negative constant read
\* and a negative time-step parameter read, and 0 exactly when the
\* conversion reported success.
C8_ExitCodeIdentifiesOutcome ==
    pc = "exit" =>
        /\ (exitCode = ExitUsage <=> argc < MinArgc)
        /\ (argc < MinArgc => opened = "no" /\ calls = 0)
        /\ (exitCode = ExitOpenFailed <=> opened = "failed")
        /\ (opened = "failed" => result = "none" /\ calls = 0)
        /\ (exitCode = ExitConvertFailed <=> result = "failed")
        /\ (exitCode = ExitSuccess <=> result = "ok")
        /\ (negAt \in {"header", "constant", "param"} =>
                exitCode = ExitConvertFailed)
        /\ (lastOp = "release" /\ nSaves = 0 => exitCode = ExitConvertFailed)

\* C8 witness: the conversion failed at a constant read and the process
\* exited with the conversion-failure code.
C8_Witness ==
    /\ pc = "exit"
    /\ negAt = "constant"
    /\ result = "failed"
    /\ exitCode = ExitConvertFailed

\* C9: the constant set is iterated to its end at most once, and exactly
\* once in a run that ends in Done; no time step is begun, no time-step
\* parameter is handled and the mesh holds no time sample before the
\* constant iteration has returned end-of-set; after a failed header read
\* or a negative constant status no time step is ever begun.
C9_ConstantsBeforeTimeSteps ==
    /\ constEnds <= 1
    /\ (result = "ok" => constEnds = 1)
    /\ (stepsBegun > 0 => constEnds = 1)
    /\ (lastOp \in {"beginStep", "param", "paramEnd", "paramError"} =>
            constEnds = 1)
    /\ (constEnds = 0 => \A a \in MeshAttrs : SampleTimes(mesh, a) = {})
    /\ (negAt \in {"header", "constant"} => stepsBegun = 0)
    /\ (result = "failed" /\ constEnds = 0 => stepsBegun = 0)

\* C9 witness: the constants were iterated to their end, a time step was
\* begun, and a parameter of it was written at a time code.
C9_Witness ==
    /\ constEnds = 1
    /\ stepsBegun >= 1
    /\ lastOp = "param"
    /\ \E a \in MeshAttrs : SampleTimes(mesh, a) # {}

\* C10: the stage is saved at most once; a run that ends in Done has saved
\* it exactly once, a run that ends in Aborted never; and once it is saved
\* no step writes to the mesh or reads from the source.
C10_SavedOnceAtEnd ==
    /\ [](/\ nSaves <= 1
          /\ (result = "ok" => nSaves = 1)
          /\ (result = "failed" => nSaves = 0))
    /\ [][nSaves >= 1 =>
            /\ nWrites' = nWrites
            /\ calls' = calls
            /\ nSaves' = nSaves
            /\ UNCHANGED sinkVars]_vars

\* C10 witness: a run that wrote to the mesh ended in Done with one save.
C10_Witness ==
    /\ pc = "exit"
    /\ result = "ok"
    /\ nSaves = 1
    /\ nWrites > 0

====
